---- MODULE Spec2Model ----
(***************************************************************************)
(* Model of sim-one-chat: SessionManager, PasswordUtils and AuthService of *)
(* src/lib/frontend-sdk/src/services/auth-service.ts, the password         *)
(* utilities of src/utils/password-hashing.ts, the signup and              *)
(* forgot-password endpoints of src/pages/api/auth, and                    *)
(* SIMONEService.waitForCompletion of                                      *)
(* src/lib/frontend-sdk/src/services/simone-service.ts.                    *)
(*                                                                         *)
(* JavaScript runs every synchronous function to completion, and none of   *)
(* the tier handlers or session methods awaits anything before its last    *)
(* statement, so every public call is one atomic step of the model; calls  *)
(* of different callers interleave at call granularity.  A handler that    *)
(* awaits in its middle (the signup endpoint, waitForCompletion) is one    *)
(* step per stretch between its awaits.  The AuthResult of a call sits in  *)
(* result until its caller takes it (Return).  Time is the value of        *)
(* Date.now() in abstract ticks.  Durations (stepDuration, totalDuration)  *)
(* are not modelled.  Spec is a service whose signing secret is usable;    *)
(* FaultSpec also admits an empty secret, with which jwt.sign and          *)
(* jwt.verify throw.                                                       *)
(***************************************************************************)
EXTENDS Integers, Sequences, FiniteSets, TLC

\* ------------------------------------------------------------------ bounds
MaxTime == 2
MaxSessions == 2
SessionTimeout == 1
JwtExpiresIn == 2
MaxCore == 3
MaxPlain == 2
MaxSalt == 2

\* ------------------------------------------------------------- input data
\* An API key is described by what the code reads of it: its first eight
\* characters (startsWith), its length, and its last eight (slice(-8)).
KeyShort == [head |-> "short", length |-> 5, tail |-> "short"]
KeyNoPrefix == [head |-> "invalid-", length |-> 40, tail |-> "-0000000"]
KeyPrefix31 == [head |-> "agentui_", length |-> 31, tail |-> "-0000031"]
KeyMin32 == [head |-> "agentui_", length |-> 32, tail |-> "-0000032"]
NoKey == [head |-> "", length |-> 0, tail |-> ""]

APIKeys == {KeyShort, KeyNoPrefix, KeyPrefix31, KeyMin32, NoKey}

PermissionLists == {<<>>, <<"basic", "chat">>}

GoodSecret == "test-secret-key-for-testing-only"

NoUser == <<>>
NoToken == <<>>
NoError == [code |-> "", message |-> "", timestamp |-> <<>>]

VARIABLES
    now,             \* Date.now()
    sessions,        \* SessionManager.sessions : id -> Session
    nextId,          \* supply of fresh uuids
    cleanupTimer,    \* SessionManager.cleanupTimer is armed
    tokens,          \* tokens signed so far and held by callers
    sessionTimeout,  \* config.sessionTimeout
    jwtSecret,       \* config.jwtSecret
    result,          \* the call that just returned and what it returned
    rotations,       \* <<old id, new id>> of every refresh the store performed
    destroyed,       \* per id, how often destroySession returned true
    cleanedUp,       \* cleanup() has been called
    pw,              \* the last call of a password utility and its result
    mockUsers,       \* signup.ts: the user list
    signups,         \* signup.ts: the POST requests in flight
    forgot,          \* forgot-password.ts: the last two POST requests answered
    job              \* SIMONEService.waitForCompletion: the call in progress

vars == <<now, sessions, nextId, cleanupTimer, tokens, sessionTimeout,
          jwtSecret, result, rotations, destroyed, cleanedUp, pw,
                      mockUsers, signups, forgot, job>>

\* ---------------------------------------------------------- SessionManager
remove(tbl, id) == [k \in DOMAIN tbl \ {id} |-> tbl[k]]

\* createSession that forgets the timeout: the session expires as it is made
createSessionNoTimeout(tbl, nid, user, permissions, t, timeout) ==
    LET session == [id |-> nid,
                    userId |-> user.id,
                    user |-> user,
                    createdAt |-> t,
                    expiresAt |-> t,
                    lastAccessedAt |-> t,
                    permissions |-> permissions]
    IN [table |-> (nid :> session) @@ tbl, ret |-> <<session>>]

\* createSession: stores a new session under a fresh id and returns it.
createSession(tbl, nid, user, permissions, t, timeout) ==
    LET session == [id |-> nid,
                    userId |-> user.id,
                    user |-> user,
                    createdAt |-> t,
                    expiresAt |-> t + timeout,
                    lastAccessedAt |-> t,
                    permissions |-> permissions]
    IN [table |-> (nid :> session) @@ tbl, ret |-> <<session>>]

\* the expiry test shared by validateSession and the sweep
isExpired(session, t) == session.expiresAt < t

\* validateSession that also pushes the expiry back on every lookup
validateSessionSliding(tbl, id, t) ==
    IF id \notin DOMAIN tbl
    THEN [table |-> tbl, ret |-> <<>>]
    ELSE IF isExpired(tbl[id], t)
         THEN [table |-> remove(tbl, id), ret |-> <<>>]
         ELSE LET touched == [tbl[id] EXCEPT !.lastAccessedAt = t,
                                             !.expiresAt = @ + 1]
              IN [table |-> [tbl EXCEPT ![id] = touched],
                  ret |-> <<touched>>]

\* validateSession: null (<<>>) when absent or expired (the expired entry
\* is deleted), else touches lastAccessedAt and returns the session.
validateSession(tbl, id, t) ==
    IF id \notin DOMAIN tbl
    THEN [table |-> tbl, ret |-> <<>>]
    ELSE IF isExpired(tbl[id], t)
         THEN [table |-> remove(tbl, id), ret |-> <<>>]
         ELSE LET touched == [tbl[id] EXCEPT !.lastAccessedAt = t]
              IN [table |-> [tbl EXCEPT ![id] = touched],
                  ret |-> <<touched>>]

\* refreshSession that deletes the replacement instead of the original
refreshSessionDeletesNew(tbl, id, nid, t, timeout) ==
    LET v == validateSession(tbl, id, t)
    IN IF v.ret = <<>>
       THEN [table |-> v.table, ret |-> <<>>]
       ELSE LET c == createSession(v.table, nid, v.ret[1].user,
                                   v.ret[1].permissions, t, timeout)
            IN [table |-> remove(c.table, nid), ret |-> c.ret]

\* refreshSession that forgets to delete the original
refreshSessionKeepsOld(tbl, id, nid, t, timeout) ==
    LET v == validateSession(tbl, id, t)
    IN IF v.ret = <<>>
       THEN [table |-> v.table, ret |-> <<>>]
       ELSE createSession(v.table, nid, v.ret[1].user, v.ret[1].permissions,
                          t, timeout)

\* refreshSession: validate, create the replacement, delete the original.
refreshSession(tbl, id, nid, t, timeout) ==
    LET v == validateSession(tbl, id, t)
    IN IF v.ret = <<>>
       THEN [table |-> v.table, ret |-> <<>>]
       ELSE LET c == createSession(v.table, nid, v.ret[1].user,
                                   v.ret[1].permissions, t, timeout)
            IN [table |-> remove(c.table, id), ret |-> c.ret]

\* destroySession that reports success whether or not the key was present
destroySessionAlwaysTrue(tbl, id) ==
    [table |-> remove(tbl, id), ret |-> TRUE]

\* destroySession: Map.delete, true iff the key was present.
destroySession(tbl, id) ==
    [table |-> remove(tbl, id), ret |-> id \in DOMAIN tbl]

\* the body of the setInterval callback of startCleanup
sweep(tbl, t) ==
    [k \in {i \in DOMAIN tbl : ~isExpired(tbl[i], t)} |-> tbl[k]]

\* ------------------------------------------- jsonwebtoken (token issuer)
\* A token is the payload it carries, the key it was signed with and its
\* kind ("jwt" for a three-segment token, "garbage" for anything else).
jwtSign(payload, secret, t) ==
    IF secret = ""
    THEN [threw |-> TRUE, message |-> "secretOrPrivateKey must have a value",
          token |-> NoToken]
    ELSE [threw |-> FALSE, message |-> "",
          token |-> <<[kind |-> "jwt", key |-> secret,
                       userId |-> payload.userId,
                       hasPermissions |-> TRUE,
                       permissions |-> payload.permissions,
                       sessionId |-> payload.sessionId,
                       provider |-> payload.provider,
                       iat |-> t, exp |-> t + JwtExpiresIn]>>]

\* jwt.verify that skips the signature check
jwtVerifyUnsigned(token, secret, t) ==
    /\ secret # ""
    /\ token.kind = "jwt"
    /\ token.exp > t

jwtVerify(token, secret, t) ==
    /\ secret # ""
    /\ token.kind = "jwt"
    /\ token.key = secret
    /\ token.exp > t

\* tokens a caller can present that this service never signed
GarbageToken ==
    [kind |-> "garbage", key |-> "", userId |-> <<>>,
     hasPermissions |-> FALSE, permissions |-> <<>>, sessionId |-> 0,
     provider |-> "", iat |-> 0, exp |-> 0]
ForgedToken ==
    [kind |-> "jwt", key |-> "attacker-secret", userId |-> <<"user_", "forged">>,
     hasPermissions |-> TRUE, permissions |-> <<"admin">>, sessionId |-> 1,
     provider |-> "", iat |-> 0, exp |-> MaxTime + JwtExpiresIn + 1]
SessionlessToken ==
    [kind |-> "jwt", key |-> GoodSecret, userId |-> <<"user_", "external">>,
     hasPermissions |-> FALSE, permissions |-> <<>>, sessionId |-> 0,
     provider |-> "", iat |-> 0, exp |-> MaxTime + JwtExpiresIn + 1]

\* ------------------------------------------------------ AuthResult values
Failure(code, message) ==
    [success |-> FALSE, sessionId |-> 0, token |-> NoToken, expiresAt |-> 0,
     permissions |-> <<>>, user |-> NoUser, authSteps |-> <<>>,
     securityLevel |-> "", rejected |-> FALSE,
     error |-> [code |-> code, message |-> message, timestamp |-> <<now>>]]

Success(session, token, permissions, user) ==
    [success |-> TRUE, sessionId |-> session.id, token |-> token,
     expiresAt |-> session.expiresAt, permissions |-> permissions,
     user |-> <<user>>, authSteps |-> <<>>, securityLevel |-> "",
     rejected |-> FALSE, error |-> NoError]

\* what a handler leaves behind: the table, the id supply, the tokens
\* signed, and the AuthResult it returns
Outcome(tbl, nid, toks, res) ==
    [table |-> tbl, nextId |-> nid, tokens |-> toks, res |-> res]

\* ------------------------------------------------------------ AuthService
startsWithPrefix(apiKey) == apiKey.head = "agentui_"

\* permissions granted to an API-key user that ignore the request
grantedPermissionsDefaultOnly(requestedPermissions) == <<"basic", "read">>

\* the permissions an API-key user gets: those requested, or the default
grantedPermissions(requestedPermissions) ==
    IF Len(requestedPermissions) > 0
    THEN requestedPermissions
    ELSE <<"basic", "read">>

\* authenticateAPIKey past its checks: user, session, token, result
issueAPIKeySession(apiKey, requestedPermissions) ==
    LET user == [id |-> <<"user_", apiKey.tail>>,
                 name |-> <<"API Key", "User">>,
                 email |-> <<>>,
                 permissions |-> grantedPermissions(requestedPermissions),
                 roles |-> <<"api_user">>]
        c == createSession(sessions, nextId, user, user.permissions,
                           now, sessionTimeout)
        session == c.ret[1]
        s == jwtSign([userId |-> user.id,
                      permissions |-> user.permissions,
                      sessionId |-> session.id,
                      provider |-> ""], jwtSecret, now)
    IN IF s.threw
       THEN Outcome(c.table, nextId + 1, tokens,
                    Failure("API_KEY_AUTH_ERROR", s.message))
       ELSE Outcome(c.table, nextId + 1, tokens \cup {s.token[1]},
                    Success(session, s.token, user.permissions, user))

\* authenticateAPIKey that creates the session before it checks the format
authenticateAPIKeyEager(apiKey, requestedPermissions) ==
    LET o == issueAPIKeySession(apiKey, requestedPermissions)
    IN IF ~startsWithPrefix(apiKey) \/ apiKey.length < 32
       THEN Outcome(o.table, o.nextId, tokens,
                    Failure("INVALID_API_KEY_FORMAT",
                            "API key must start with agentui_ and be at least 32 characters"))
       ELSE o

authenticateAPIKey(apiKey, requestedPermissions) ==
    IF ~startsWithPrefix(apiKey) \/ apiKey.length < 32
    THEN Outcome(sessions, nextId, tokens,
                 Failure("INVALID_API_KEY_FORMAT",
                         "API key must start with agentui_ and be at least 32 characters"))
    ELSE IF ~(apiKey.length >= 32 /\ startsWithPrefix(apiKey))
    THEN Outcome(sessions, nextId, tokens,
                 Failure("INVALID_API_KEY", "Invalid API key provided"))
    ELSE issueAPIKeySession(apiKey, requestedPermissions)

\* authenticateJWT that never looks for the token's session
authenticateJWTAlwaysMint(token) ==
    IF ~jwtVerify(token, jwtSecret, now)
    THEN Outcome(sessions, nextId, tokens,
                 Failure("INVALID_JWT_TOKEN", "Invalid or expired JWT token"))
    ELSE LET user == [id |-> token.userId,
                      name |-> <<"JWT", "User">>,
                      email |-> <<>>,
                      permissions |-> IF token.hasPermissions
                                      THEN token.permissions
                                      ELSE <<"basic">>,
                      roles |-> <<"jwt_user">>]
             c == createSession(sessions, nextId, user, user.permissions,
                                now, sessionTimeout)
         IN Outcome(c.table, nextId + 1, tokens,
                    Success(c.ret[1], <<token>>, user.permissions, user))

authenticateJWT(token) ==
    IF ~jwtVerify(token, jwtSecret, now)
    THEN Outcome(sessions, nextId, tokens,
                 Failure("INVALID_JWT_TOKEN", "Invalid or expired JWT token"))
    ELSE LET user == [id |-> token.userId,
                      name |-> <<"JWT", "User">>,
                      email |-> <<>>,
                      permissions |-> IF token.hasPermissions
                                      THEN token.permissions
                                      ELSE <<"basic">>,
                      roles |-> <<"jwt_user">>]
             v == IF token.sessionId # 0
                  THEN validateSession(sessions, token.sessionId, now)
                  ELSE [table |-> sessions, ret |-> <<>>]
         IN IF v.ret # <<>>
            THEN Outcome(v.table, nextId, tokens,
                         Success(v.ret[1], <<token>>, user.permissions, user))
            ELSE LET c == createSession(v.table, nextId, user,
                                        user.permissions, now, sessionTimeout)
                 IN Outcome(c.table, nextId + 1, tokens,
                            Success(c.ret[1], <<token>>, user.permissions, user))

authenticateOAuth2(config) ==
    IF ~(config.clientId # "" /\ config.clientSecret # "")
    THEN Outcome(sessions, nextId, tokens,
                 Failure("INVALID_OAUTH2_CREDENTIALS",
                         "Invalid OAuth2 client credentials"))
    ELSE LET user == [id |-> <<"oauth2_", config.clientId>>,
                      name |-> <<config.provider, "User">>,
                      email |-> <<"user@", config.provider, ".com">>,
                      permissions |-> <<"basic", "read", "write", "admin">>,
                      roles |-> <<"oauth2_user", "premium_user">>]
             c == createSession(sessions, nextId, user, user.permissions,
                                now, sessionTimeout)
             session == c.ret[1]
             s == jwtSign([userId |-> user.id,
                           permissions |-> user.permissions,
                           sessionId |-> session.id,
                           provider |-> config.provider], jwtSecret, now)
         IN IF s.threw
            THEN Outcome(c.table, nextId + 1, tokens,
                         Failure("OAUTH2_AUTH_ERROR", s.message))
            ELSE Outcome(c.table, nextId + 1, tokens \cup {s.token[1]},
                         Success(session, s.token, user.permissions, user))

\* an AuthStep that does not record the permissions the tier granted
AuthStepWithoutPermissions(step, method, r, level) ==
    [step |-> step, method |-> method, success |-> r.success,
     permissions |-> <<>>, securityLevel |-> level]

AuthStep(step, method, r, level) ==
    [step |-> step, method |-> method, success |-> r.success,
     permissions |-> r.permissions, securityLevel |-> level]

\* the final return reporting a service error instead
methodRequiredAsServiceError(o, authSteps) ==
    [o EXCEPT !.res = [Failure("AUTH_SERVICE_ERROR",
                               "Valid authentication method required")
                       EXCEPT !.authSteps = authSteps]]

\* the return after the three blocks: "No valid authentication method"
methodRequired(o, authSteps) ==
    [o EXCEPT !.res = [Failure("AUTH_METHOD_REQUIRED",
                               "Valid authentication method required")
                       EXCEPT !.authSteps = authSteps]]

\* authenticate that reports the securityLevel it gave the AuthStep
authenticateStepLevels(request) ==
    IF request.method = "api-key" /\ request.apiKey.length > 0
    THEN LET o == authenticateAPIKey(request.apiKey, request.permissions)
             authSteps == <<AuthStep(1, "api-key", o.res, "basic")>>
         IN IF o.res.success
            THEN [o EXCEPT !.res.authSteps = authSteps,
                           !.res.securityLevel = "basic"]
            ELSE methodRequired(o, authSteps)
    ELSE IF request.method = "jwt" /\ request.token # NoToken
    THEN LET o == authenticateJWT(request.token[1])
             authSteps == <<AuthStep(2, "jwt", o.res, "standard")>>
         IN IF o.res.success
            THEN [o EXCEPT !.res.authSteps = authSteps,
                           !.res.securityLevel = "standard"]
            ELSE methodRequired(o, authSteps)
    ELSE IF /\ request.method = "oauth2"
            /\ request.clientId # ""
            /\ request.clientSecret # ""
    THEN LET o == authenticateOAuth2(
                      [clientId |-> request.clientId,
                       clientSecret |-> request.clientSecret,
                       redirectUri |-> request.redirectUri,
                       provider |-> IF request.provider # ""
                                    THEN request.provider ELSE "generic"])
             authSteps == <<AuthStep(3, "oauth2", o.res, "enterprise")>>
         IN [o EXCEPT !.res.authSteps = authSteps,
                      !.res.securityLevel = "enterprise"]
    ELSE methodRequired(Outcome(sessions, nextId, tokens, NoError), <<>>)

\* authenticate: the three blocks are tried in turn; request.method admits
\* at most one of them.  The handlers catch everything they can throw, so
\* the outer catch (AUTH_SERVICE_ERROR) is unreachable for typed requests.
authenticate(request) ==
    IF request.method = "api-key" /\ request.apiKey.length > 0
    THEN LET o == authenticateAPIKey(request.apiKey, request.permissions)
             authSteps == <<AuthStep(1, "api-key", o.res, "basic")>>
         IN IF o.res.success
            THEN [o EXCEPT !.res.authSteps = authSteps,
                           !.res.securityLevel = "standard"]
            ELSE methodRequired(o, authSteps)
    ELSE IF request.method = "jwt" /\ request.token # NoToken
    THEN LET o == authenticateJWT(request.token[1])
             authSteps == <<AuthStep(2, "jwt", o.res, "standard")>>
         IN IF o.res.success
            THEN [o EXCEPT !.res.authSteps = authSteps,
                           !.res.securityLevel = "high"]
            ELSE methodRequired(o, authSteps)
    ELSE IF /\ request.method = "oauth2"
            /\ request.clientId # ""
            /\ request.clientSecret # ""
    THEN LET o == authenticateOAuth2(
                      [clientId |-> request.clientId,
                       clientSecret |-> request.clientSecret,
                       redirectUri |-> request.redirectUri,
                       provider |-> IF request.provider # ""
                                    THEN request.provider ELSE "generic"])
             authSteps == <<AuthStep(3, "oauth2", o.res, "enterprise")>>
         IN [o EXCEPT !.res.authSteps = authSteps,
                      !.res.securityLevel = "enterprise"]
    ELSE methodRequired(Outcome(sessions, nextId, tokens, NoError), <<>>)

\* AuthService.validateSession / refreshSession / destroySession
authValidateSession(sessionId) ==
    LET v == validateSession(sessions, sessionId, now)
    IN IF v.ret = <<>>
       THEN Outcome(v.table, nextId, tokens,
                    Failure("SESSION_NOT_FOUND", "Session not found or expired"))
       ELSE Outcome(v.table, nextId, tokens,
                    Success(v.ret[1], NoToken, v.ret[1].permissions,
                            v.ret[1].user))

\* the promise of a call whose exception nobody caught
Rejected(message) == [Failure("", message) EXCEPT !.rejected = TRUE]

\* refreshSession without its try/catch: a throwing jwt.sign rejects the call
authRefreshSessionUncaught(sessionId) ==
    LET r == refreshSession(sessions, sessionId, nextId, now, sessionTimeout)
    IN IF r.ret = <<>>
       THEN Outcome(r.table, nextId, tokens,
                    Failure("SESSION_REFRESH_FAILED", "Unable to refresh session"))
       ELSE LET newSession == r.ret[1]
                s == jwtSign([userId |-> newSession.userId,
                              permissions |-> newSession.permissions,
                              sessionId |-> newSession.id,
                              provider |-> ""], jwtSecret, now)
            IN IF s.threw
               THEN Outcome(r.table, nextId + 1, tokens, Rejected(s.message))
               ELSE Outcome(r.table, nextId + 1, tokens \cup {s.token[1]},
                            Success(newSession, s.token,
                                    newSession.permissions, newSession.user))

authRefreshSession(sessionId) ==
    LET r == refreshSession(sessions, sessionId, nextId, now, sessionTimeout)
    IN IF r.ret = <<>>
       THEN Outcome(r.table, nextId, tokens,
                    Failure("SESSION_REFRESH_FAILED", "Unable to refresh session"))
       ELSE LET newSession == r.ret[1]
                s == jwtSign([userId |-> newSession.userId,
                              permissions |-> newSession.permissions,
                              sessionId |-> newSession.id,
                              provider |-> ""], jwtSecret, now)
            IN IF s.threw
               THEN Outcome(r.table, nextId + 1, tokens,
                            Failure("SESSION_REFRESH_ERROR", s.message))
               ELSE Outcome(r.table, nextId + 1, tokens \cup {s.token[1]},
                            Success(newSession, s.token,
                                    newSession.permissions, newSession.user))

\* destroySession that reports a miss as a bare { success: false }
authDestroySessionBare(sessionId) ==
    LET d == destroySession(sessions, sessionId)
    IN Outcome(d.table, nextId, tokens,
               [Failure("", "") EXCEPT !.success = d.ret, !.error = NoError])

authDestroySession(sessionId) ==
    LET d == destroySession(sessions, sessionId)
    IN Outcome(d.table, nextId, tokens,
               IF d.ret
               THEN [Failure("", "") EXCEPT !.success = TRUE, !.error = NoError]
               ELSE Failure("SESSION_DESTROY_FAILED", "Session not found"))

\* ----------------------------------------------------------------- inputs
NoRequest ==
    [method |-> "", apiKey |-> NoKey, token |-> NoToken, clientId |-> "",
     clientSecret |-> "", redirectUri |-> "", provider |-> "",
     permissions |-> <<>>]

\* the well-formed key with and without requested permissions, and every
\* other key once
APIKeyRequests ==
    {[NoRequest EXCEPT !.method = "api-key", !.apiKey = KeyMin32,
                       !.permissions = p] : p \in PermissionLists}
    \cup
    {[NoRequest EXCEPT !.method = "api-key", !.apiKey = k,
                       !.permissions = <<"basic">>] : k \in APIKeys \ {KeyMin32}}

JWTRequests ==
    {[NoRequest EXCEPT !.method = "jwt", !.token = t] :
        t \in {NoToken} \cup
              {<<x>> : x \in tokens \cup
                             {GarbageToken, ForgedToken, SessionlessToken}}}

FullOAuth2Request ==
    [NoRequest EXCEPT !.method = "oauth2", !.clientId = "client-1",
                      !.clientSecret = "s3cr3t",
                      !.redirectUri = "https://app.example/callback",
                      !.provider = "github"]

\* complete credentials, and the same with one field missing
OAuth2Requests ==
    {FullOAuth2Request,
     [FullOAuth2Request EXCEPT !.clientId = ""],
     [FullOAuth2Request EXCEPT !.clientSecret = ""],
     [FullOAuth2Request EXCEPT !.redirectUri = ""]}

OtherRequests == {[NoRequest EXCEPT !.method = "invalid-method"]}

Requests == APIKeyRequests \cup JWTRequests \cup OAuth2Requests \cup OtherRequests

\* 0 stands for an id the store never issued ('invalid-session-id')
SessionIds == 0 .. MaxSessions

\* a returned call as its caller and an observer of the table see it: the
\* operation, its argument, the table it found, the tokens it signed and
\* the value it returned
Returned(op, id, request, before, signed, res) ==
    [op |-> op, id |-> id, request |-> request, before |-> before,
     signed |-> signed, res |-> res]

NoResult ==
    [success |-> FALSE, sessionId |-> 0, token |-> NoToken, expiresAt |-> 0,
     permissions |-> <<>>, user |-> NoUser, authSteps |-> <<>>,
     securityLevel |-> "", rejected |-> FALSE, error |-> NoError]

\* no call is returning
Idle == Returned("none", 0, NoRequest, <<>>, {}, NoResult)

\* ------------------------------------------------------ password utilities
\* A password is the sequence of its characters.
Lowercase == {"a", "b"}
Uppercase == {"A"}
Digits == {"1"}
\* characters the regular-expression dot does not match
LineTerminators == {"\n"}
Alphabet == Lowercase \cup Uppercase \cup Digits \cup {"!"} \cup LineTerminators

Repeat(unit, k) == [i \in 1 .. k * Len(unit) |-> unit[((i - 1) % Len(unit)) + 1]]

SeqsUpTo(S, n) == UNION {[1 .. k -> S] : k \in 0 .. n}

\* every short password, alone and followed by a two-character unit
\* repeated often enough to pass 8 and 12 characters
PadRepeats == {0, 3, 5}
PadUnits == {<<x, y>> : x, y \in Alphabet} \ {<<x, x>> : x \in Alphabet}
Passwords ==
    {core \o Repeat(unit, k) :
        core \in SeqsUpTo(Alphabet, MaxCore), unit \in PadUnits, k \in PadRepeats}

\* RegExp.test for a character class
test(class, password) == \E i \in DOMAIN password : password[i] \in class

\* /[^a-zA-Z0-9]/.test
testSpecial(password) ==
    \E i \in DOMAIN password :
        password[i] \notin Lowercase \cup Uppercase \cup Digits

\* /(.)\1{2,}/.test: a character the dot matches, then itself twice more
testRepeated(password) ==
    \E i \in 1 .. Len(password) - 2 :
        /\ password[i] \notin LineTerminators
        /\ password[i + 1] = password[i]
        /\ password[i + 2] = password[i]

If(cond, s) == IF cond THEN s ELSE <<>>
Points(cond) == IF cond THEN 1 ELSE 0

\* PasswordUtils.validatePasswordStrength (frontend SDK)
PasswordUtils_validatePasswordStrength(password) ==
    LET score ==
            (IF Len(password) >= 12 THEN 2
             ELSE IF Len(password) >= 8 THEN 1 ELSE 0)
            + Points(test(Lowercase, password))
            + Points(test(Uppercase, password))
            + Points(test(Digits, password))
            + Points(testSpecial(password))
            + Points(~testRepeated(password))
        feedback ==
            If(Len(password) < 8,
               <<"Password should be at least 8 characters long">>)
            \o If(~test(Lowercase, password), <<"Include lowercase letters">>)
            \o If(~test(Uppercase, password), <<"Include uppercase letters">>)
            \o If(~test(Digits, password), <<"Include numbers">>)
            \o If(~testSpecial(password), <<"Include special characters">>)
            \o If(testRepeated(password), <<"Avoid repeating characters">>)
        isValid == score >= 6
    IN [score |-> score, isValid |-> isValid,
        feedback |-> IF isValid THEN <<"Password strength is good">>
                                ELSE feedback]

\* validatePasswordStrength of utils/password-hashing
validatePasswordStrength(password) ==
    LET score ==
            Points(Len(password) >= 8)
            + Points(Len(password) >= 12)
            + Points(test(Lowercase, password))
            + Points(test(Uppercase, password))
            + Points(test(Digits, password))
            + Points(testSpecial(password))
            + Points(~testRepeated(password))
        feedback ==
            If(Len(password) < 8,
               <<"Password must be at least 8 characters long">>)
            \o If(~test(Lowercase, password),
                  <<"Password must contain lowercase letters">>)
            \o If(~test(Uppercase, password),
                  <<"Password must contain uppercase letters">>)
            \o If(~test(Digits, password), <<"Password must contain numbers">>)
            \o If(~testSpecial(password),
                  <<"Password must contain special characters">>)
            \o If(testRepeated(password),
                  <<"Password should not contain repeated characters">>)
    IN [score |-> score,
        isValid |-> score >= 5 /\ Len(feedback) = 0,
        feedback |-> feedback]

NoStrength == [score |-> 0, isValid |-> FALSE, feedback |-> <<>>]

\* ------------------------------------------------------------------ argon2
\* Argon2 options; no config stands for an omitted argument
Argon2Config(memoryCost, timeCost, parallelism, hashLength) ==
    [memoryCost |-> memoryCost, timeCost |-> timeCost,
     parallelism |-> parallelism, hashLength |-> hashLength]
NoConfig == Argon2Config(0, 0, 0, 0)
defaultConfig == Argon2Config(65536, 3, 4, 32)
ARGON2_CONFIG == Argon2Config(65536, 3, 1, 32)
testConfig == Argon2Config(4096, 2, 2, 32)
invalidConfig == Argon2Config(-1, 0, 0, 0)

CostFields == {"memoryCost", "timeCost", "parallelism", "hashLength"}

\* configs that differ from a given one in exactly one field
OneFieldOff(config) == {[config EXCEPT ![f] = @ + 1] : f \in CostFields}

\* configs with exactly one parameter that is not positive
OneNonPositive(config) ==
    {[config EXCEPT ![f] = v] : f \in CostFields, v \in {0, -1}}

Argon2Configs ==
    {NoConfig, defaultConfig, testConfig, invalidConfig, ARGON2_CONFIG}
        \cup OneFieldOff(ARGON2_CONFIG) \cup OneNonPositive(testConfig)

\* A hash string is what it encodes: the options, the salt and the key
\* derived from the password (the password itself: no two passwords derive
\* the same key).  Any other string has phc = FALSE.
HashString(config, salt, plain) ==
    [phc |-> TRUE, empty |-> FALSE, config |-> config, salt |-> salt,
     plain |-> plain]
MalformedHash ==
    [phc |-> FALSE, empty |-> FALSE, config |-> NoConfig, salt |-> 0,
     plain |-> <<>>]
EmptyHash == [MalformedHash EXCEPT !.empty = TRUE]

\* argon2.hash: rejects options outside the library's limits
argon2Hash(plain, config, salt) ==
    IF \/ config.memoryCost <= 0
       \/ config.timeCost <= 0
       \/ config.parallelism <= 0
       \/ config.hashLength <= 0
    THEN [threw |-> TRUE, digest |-> <<>>, message |-> "Invalid argon2 option"]
    ELSE [threw |-> FALSE, digest |-> <<HashString(config, salt, plain)>>,
          message |-> ""]

\* argon2.needsRehash(digest, options): compares the version, memoryCost and
\* timeCost the hash encodes with the options; releases differ in whether
\* parallelism is compared as well, none compares hashLength.  Throws on a
\* string that is not a hash.
argon2NeedsRehash(digest, options, comparesParallelism) ==
    [threw |-> ~digest.phc,
     ret |-> /\ digest.phc
             /\ \/ digest.config.memoryCost # options.memoryCost
                \/ digest.config.timeCost # options.timeCost
                \/ /\ comparesParallelism
                   /\ digest.config.parallelism # options.parallelism]

\* argon2.verify(digest, plain): throws on a string that is not a hash
argon2Verify(digest, plain) ==
    [threw |-> ~digest.phc, ret |-> digest.phc /\ digest.plain = plain]

\* PasswordUtils.hashPassword / verifyPassword (frontend SDK)
\* the rethrown message ends with the library's own
PasswordUtils_hashPassword(password, config, salt) ==
    LET h == argon2Hash(password,
                        IF config = NoConfig THEN defaultConfig ELSE config,
                        salt)
    IN IF h.threw
       THEN [h EXCEPT !.message = "Password hashing failed: "]
       ELSE h

\* verifyPassword without its try/catch
PasswordUtils_verifyPasswordUncaught(password, hash) ==
    argon2Verify(hash, password)

PasswordUtils_verifyPassword(password, hash) ==
    LET v == argon2Verify(hash, password)
    IN IF v.threw THEN [threw |-> FALSE, ret |-> FALSE] ELSE v

\* hashPassword / verifyPassword of utils/password-hashing
hashPassword(password, salt) ==
    LET h == IF Len(password) < 1
             THEN [threw |-> TRUE, digest |-> <<>>,
                   message |-> "Password cannot be empty"]
             ELSE argon2Hash(password, ARGON2_CONFIG, salt)
    IN IF h.threw
       THEN [h EXCEPT !.message = "Failed to hash password"]
       ELSE h

\* a string handed to argon2.verify where the hash belongs
AsHash(string) == [MalformedHash EXCEPT !.empty = (string = <<>>)]

\* verifyPassword with the arguments of argon2.verify swapped
verifyPasswordSwapped(password, hashedPassword) ==
    IF Len(password) = 0 \/ hashedPassword.empty
    THEN [threw |-> FALSE, ret |-> FALSE]
    ELSE LET v == argon2Verify(AsHash(password), hashedPassword.plain)
         IN IF v.threw THEN [threw |-> FALSE, ret |-> FALSE] ELSE v

verifyPassword(password, hashedPassword) ==
    IF Len(password) = 0 \/ hashedPassword.empty
    THEN [threw |-> FALSE, ret |-> FALSE]
    ELSE LET v == argon2Verify(hashedPassword, password)
         IN IF v.threw THEN [threw |-> FALSE, ret |-> FALSE] ELSE v

\* needsRehash of utils/password-hashing
needsRehash(hashedPassword, comparesParallelism) ==
    LET n == argon2NeedsRehash(hashedPassword, ARGON2_CONFIG,
                               comparesParallelism)
    IN IF n.threw THEN TRUE ELSE n.ret

\* passwords handed to the hash functions, and the salts argon2 may draw
PlainPasswords == SeqsUpTo(Lowercase, MaxPlain)
Salts == 1 .. MaxSalt

Implementations == {"PasswordUtils", "password-hashing"}

\* a call of a password utility: its arguments and what it returned
PasswordCall(op, impl, password, config, strength, threw, message, digest, candidate, hash, verified, rehash) ==
    [op |-> op, impl |-> impl, password |-> password, config |-> config,
     strength |-> strength, threw |-> threw, message |-> message,
     digest |-> digest, candidate |-> candidate, hash |-> hash,
     verified |-> verified, rehash |-> rehash]

NoPasswordCall ==
    PasswordCall("none", "", <<>>, NoConfig, NoStrength, FALSE, "", <<>>, <<>>,
                 EmptyHash, FALSE, FALSE)

\* ------------------------------------------------- authenticateTriple
\* The chain behind AuthController.authenticateTriple: the API key, JWT and
\* OAuth2 handlers in that order, each on credentials supplied up front,
\* one AuthStep per tier run.
Range(s) == {s[i] : i \in DOMAIN s}

unionPermissions(a, b) == a \o SelectSeq(b, LAMBDA p : p \notin Range(a))

\* the apiKey, jwtToken and OAuth2 credentials of one chain call
TripleRequests ==
    {[c EXCEPT !.method = "triple", !.apiKey = k, !.token = <<t>>] :
        c \in {FullOAuth2Request, [FullOAuth2Request EXCEPT !.clientSecret = ""]},
        k \in {KeyMin32, KeyShort},
        t \in tokens \cup {GarbageToken, ForgedToken, SessionlessToken}}

\* the chain's result after one more tier: its step is appended; a failing
\* tier's failure is the result, a succeeding tier adds its permissions
chained(prev, r, step, method, stepLevel, level) ==
    LET authSteps == Append(prev.authSteps, AuthStep(step, method, r, stepLevel))
    IN IF r.success
       THEN [r EXCEPT !.authSteps = authSteps,
                      !.permissions = unionPermissions(prev.permissions, @),
                      !.securityLevel = level]
       ELSE [r EXCEPT !.authSteps = authSteps]

\* a chain whose tiers so far succeeded and that has a tier left to run
ChainPending(r) ==
    /\ r.op = "authenticateTriple"
    /\ r.res.success
    /\ Len(r.res.authSteps) < 3

\* ------------------------------------------------------------------ actions
\* A call runs to completion in one step and leaves its AuthResult in
\* result, the resolved promise; Return is the caller taking it.
Apply(o, op, id, request) ==
    /\ result = Idle
    /\ o.nextId <= MaxSessions + 1
    /\ sessions' = o.table
    /\ nextId' = o.nextId
    /\ tokens' = o.tokens
    /\ result' = Returned(op, id, request, sessions, o.tokens \ tokens, o.res)
    /\ UNCHANGED <<now, cleanupTimer, sessionTimeout, jwtSecret, cleanedUp, pw,
                      mockUsers, signups, forgot, job>>

Authenticate ==
    /\ result = Idle
    /\ \E request \in Requests :
        /\ Apply(authenticate(request), "authenticate", 0, request)
        /\ UNCHANGED <<rotations, destroyed>>

ValidateSession ==
    /\ result = Idle
    /\ \E id \in SessionIds :
        /\ Apply(authValidateSession(id), "validateSession", id, NoRequest)
        /\ UNCHANGED <<rotations, destroyed>>

RefreshSession ==
    /\ result = Idle
    /\ \E id \in SessionIds :
        LET o == authRefreshSession(id)
        IN /\ Apply(o, "refreshSession", id, NoRequest)
           /\ rotations' = IF o.nextId # nextId
                            THEN rotations \cup {<<id, nextId>>}
                            ELSE rotations
           /\ UNCHANGED destroyed

DestroySession ==
    /\ result = Idle
    /\ \E id \in SessionIds :
        LET o == authDestroySession(id)
        IN /\ Apply(o, "destroySession", id, NoRequest)
           /\ destroyed' = IF o.res.success
                            THEN [destroyed EXCEPT ![id] = @ + 1]
                            ELSE destroyed
           /\ UNCHANGED rotations

\* one firing of the interval timer armed by startCleanup
Sweep ==
    /\ result = Idle
    /\ cleanupTimer
    /\ sessions' = sweep(sessions, now)
    /\ UNCHANGED <<now, nextId, cleanupTimer, tokens, sessionTimeout, jwtSecret,
                   result, rotations, destroyed, cleanedUp, pw,
                      mockUsers, signups, forgot, job>>

\* cleanup that clears the table but leaves the interval running
CleanupKeepsTimer ==
    /\ result = Idle
    /\ sessions' = <<>>
    /\ cleanedUp' = TRUE
    /\ result' = Returned("cleanup", 0, NoRequest, sessions, {}, NoResult)
    /\ UNCHANGED <<now, nextId, cleanupTimer, tokens, sessionTimeout,
                   jwtSecret, rotations, destroyed, pw,
                      mockUsers, signups, forgot, job>>

\* AuthService.cleanup -> SessionManager.cleanup
Cleanup ==
    /\ result = Idle
    /\ cleanupTimer' = FALSE
    /\ sessions' = <<>>
    /\ cleanedUp' = TRUE
    /\ result' = Returned("cleanup", 0, NoRequest, sessions, {}, NoResult)
    /\ UNCHANGED <<now, nextId, tokens, sessionTimeout, jwtSecret, rotations,
                   destroyed, pw,
                      mockUsers, signups, forgot, job>>

\* the clock advances
Tick ==
    /\ result = Idle
    /\ now < MaxTime
    /\ now' = now + 1
    /\ UNCHANGED <<sessions, nextId, cleanupTimer, tokens, sessionTimeout,
                   jwtSecret, result, rotations, destroyed, cleanedUp, pw,
                      mockUsers, signups, forgot, job>>

\* a tier of the chain has run: its effects are in place and the chain's
\* result so far is in result
ChainApply(o, r) ==
    /\ sessions' = o.table
    /\ nextId' = o.nextId
    /\ tokens' = o.tokens
    /\ result' = r
    /\ UNCHANGED <<now, cleanupTimer, sessionTimeout, jwtSecret, rotations,
                   destroyed, cleanedUp, pw,
                      mockUsers, signups, forgot, job>>

\* tier 1; a chain starts only while the id supply is not exhausted
TripleAPIKey ==
    /\ result = Idle
    /\ nextId <= MaxSessions
    /\ \E request \in TripleRequests :
        LET o == authenticateAPIKey(request.apiKey, <<>>)
        IN ChainApply(o, Returned("authenticateTriple", 0, request, sessions,
                                     o.tokens \ tokens,
                                     chained(NoResult, o.res, 1, "api-key",
                                             "basic", "standard")))

\* tier 2, reached only after tier 1 succeeded
TripleJWT ==
    LET o == authenticateJWT(result.request.token[1])
    IN /\ ChainPending(result)
       /\ Len(result.res.authSteps) = 1
       /\ ChainApply(o, [result EXCEPT
                             !.signed = @ \cup (o.tokens \ tokens),
                             !.res = chained(@, o.res, 2, "jwt", "standard",
                                             "high")])

\* tier 3, reached only after tiers 1 and 2 succeeded
TripleOAuth2 ==
    LET o == authenticateOAuth2(
                 [clientId |-> result.request.clientId,
                  clientSecret |-> result.request.clientSecret,
                  redirectUri |-> result.request.redirectUri,
                  provider |-> result.request.provider])
    IN /\ ChainPending(result)
       /\ Len(result.res.authSteps) = 2
       /\ ChainApply(o, [result EXCEPT
                             !.signed = @ \cup (o.tokens \ tokens),
                             !.res = chained(@, o.res, 3, "oauth2",
                                             "enterprise", "enterprise")])

\* the AuthResult carries the stored session's own user and permissions
\* objects: validateSession and refreshSession return session.user and
\* session.permissions, the api-key and oauth2 handlers return the user
\* they handed to createSession
ReturnsStoredObjects(r) ==
    /\ r.res.success
    /\ r.res.sessionId \in DOMAIN sessions
    /\ \/ r.op \in {"validateSession", "refreshSession"}
       \/ r.op = "authenticate" /\ r.request.method \in {"api-key", "oauth2"}

\* the caller pushes onto the permissions array of the AuthResult it holds;
\* the array is the one the stored session and its user refer to
CallerMutates ==
    LET id == result.res.sessionId
    IN /\ ReturnsStoredObjects(result)
       /\ "injected" \notin Range(sessions[id].permissions)
       /\ sessions' = [sessions EXCEPT
                           ![id].permissions = Append(@, "injected"),
                           ![id].user.permissions = Append(@, "injected")]
       /\ result' = Returned("mutate", id, NoRequest, sessions, {}, NoResult)
       /\ UNCHANGED <<now, nextId, cleanupTimer, tokens, sessionTimeout,
                      jwtSecret, rotations, destroyed, cleanedUp, pw,
                      mockUsers, signups, forgot, job>>

\* the awaiting caller resumes with the AuthResult
Return ==
    /\ result # Idle
    /\ ~ChainPending(result)
    /\ result' = Idle
    /\ UNCHANGED <<now, sessions, nextId, cleanupTimer, tokens, sessionTimeout,
                   jwtSecret, rotations, destroyed, cleanedUp, pw,
                      mockUsers, signups, forgot, job>>

\* ------------------------------------------------------- strings of pages
\* A string is the sequence of its characters.
toLowerCase(s) ==
    [i \in DOMAIN s |->
        CASE s[i] = "A" -> "a"
          [] s[i] = "T" -> "t"
          [] OTHER -> s[i]]

\* String.prototype.includes
includes(s, sub) ==
    \E k \in 0 .. Len(s) - Len(sub) : SubSeq(s, k + 1, k + Len(sub)) = sub

\* String.prototype.trim
trim(s) ==
    LET inner == {i \in DOMAIN s : s[i] # " "}
    IN IF inner = {}
       THEN <<>>
       ELSE SubSeq(s, CHOOSE i \in inner : \A j \in inner : i <= j,
                   CHOOSE i \in inner : \A j \in inner : j <= i)

\* /^[^\s@]+@[^\s@]+\.[^\s@]+$/.test
emailRegexTest(email) ==
    \E i, j \in DOMAIN email :
        /\ 1 < i /\ i + 1 < j /\ j < Len(email)
        /\ email[i] = "@"
        /\ email[j] = "."
        /\ \A k \in DOMAIN email \ {i} : email[k] \notin {" ", "@"}

\* the addresses requests carry: a local part, '@' or nothing, a domain
LocalParts ==
    {<<"a">>, <<"A">>, <<"t", "e", "s", "t">>, <<"T", "e", "s", "t">>,
     <<"a", " ">>, <<>>}
Domains == {<<"x", ".", "c">>, <<"x">>}
Emails ==
    {l \o at \o d : l \in LocalParts, at \in {<<"@">>, <<>>}, d \in Domains}
        \cup {<<>>}

\* ------------------------------------------------------------- signup.ts
MaxRequests == 2
Requesters == 1 .. MaxRequests

StrongPassword == <<"a", "A", "1", "!", "b", "A", "1", "!">>
WeakPassword == <<"a", "b", "1">>

\* the JSON body of a signup request; json = FALSE is a body that does not
\* parse
SignupBody(json, email, password, name, acceptTerms) ==
    [json |-> json, email |-> email, password |-> password, name |-> name,
     acceptTerms |-> acceptTerms]

GoodBody(email) ==
    SignupBody(TRUE, email, StrongPassword, <<"A", "l", " ">>, TRUE)

\* a complete body for every address, and one body failing each check
SignupBodies ==
    {GoodBody(e) : e \in Emails}
        \cup {[GoodBody(<<"a", "@", "x", ".", "c">>) EXCEPT !.json = FALSE],
              [GoodBody(<<"a", "@", "x", ".", "c">>) EXCEPT !.name = <<>>],
              [GoodBody(<<"a", "@", "x", ".", "c">>) EXCEPT !.name = <<"A">>],
              [GoodBody(<<"a", "@", "x", ".", "c">>) EXCEPT !.password = <<>>],
              [GoodBody(<<"a", "@", "x", ".", "c">>) EXCEPT
                   !.password = WeakPassword],
              [GoodBody(<<"a", "@", "x", ".", "c">>) EXCEPT
                   !.acceptTerms = FALSE]}

\* a request of the signup endpoint: where its handler stands, its body and
\* the response it sent (status 0: none yet)
NoBody == SignupBody(FALSE, <<>>, <<>>, <<>>, FALSE)
Signup(pc, body, status, error) ==
    [pc |-> pc, body |-> body, status |-> status, error |-> error]
NoSignup == Signup("idle", NoBody, 0, "")

\* the response of the validations that precede the user lookup, status 0
\* when all pass
signupValidate(body) ==
    IF body.email = <<>> \/ body.password = <<>> \/ body.name = <<>>
    THEN [status |-> 400, error |-> "Email, password, and name are required"]
    ELSE IF ~body.acceptTerms
    THEN [status |-> 400, error |-> "You must accept the terms of service"]
    ELSE IF ~emailRegexTest(body.email)
    THEN [status |-> 400, error |-> "Invalid email format"]
    ELSE IF Len(body.name) < 2 \/ Len(body.name) > 50
    THEN [status |-> 400, error |-> "Name must be between 2 and 50 characters"]
    ELSE IF ~validatePasswordStrength(body.password).isValid
    THEN [status |-> 400,
          error |-> "Password does not meet security requirements"]
    ELSE [status |-> 0, error |-> ""]

\* mockUsers.find(u => u.email.toLowerCase() === email.toLowerCase())
existingUser(users, email) ==
    \E i \in DOMAIN users : toLowerCase(users[i].email) = toLowerCase(email)

\* the record pushed to mockUsers
newUser(id, body, hashedPassword) ==
    [id |-> id, email |-> toLowerCase(body.email), password |-> hashedPassword,
     name |-> trim(body.name), permissions |-> <<"basic", "chat">>,
     emailVerified |-> FALSE]

\* ----------------------------------------------------- forgot-password.ts
\* the form of a request; form = FALSE is a body request.formData() rejects
ForgotForms ==
    {[form |-> TRUE, email |-> e] : e \in Emails}
        \cup {[form |-> FALSE, email |-> <<>>]}

\* "assume user exists if email contains test"
checkUserExists(email) == includes(toLowerCase(email), <<"t", "e", "s", "t">>)

\* an answered request: the address, whether an account exists for it, the
\* response, and whether a reset mail went out
Answer(email, exists, status, success, message, sent) ==
    [email |-> email, exists |-> exists, status |-> status,
     success |-> success, message |-> message, sent |-> sent]

\* POST that answers 404 for an address without account
forgotPasswordRevealing(f) ==
    IF ~f.form
    THEN Answer(f.email, FALSE, 500, FALSE,
                "An unexpected error occurred. Please try again.", FALSE)
    ELSE IF f.email = <<>>
    THEN Answer(f.email, FALSE, 400, FALSE, "Email address is required", FALSE)
    ELSE IF ~emailRegexTest(f.email)
    THEN Answer(f.email, checkUserExists(f.email), 400, FALSE,
                "Please enter a valid email address", FALSE)
    ELSE IF ~checkUserExists(f.email)
    THEN Answer(f.email, FALSE, 404, FALSE, "No account with that email", FALSE)
    ELSE Answer(f.email, TRUE, 200, TRUE,
                "If an account with that email exists, we have sent a password reset link.",
                TRUE)

\* POST of forgot-password.ts
forgotPassword(f) ==
    IF ~f.form
    THEN Answer(f.email, FALSE, 500, FALSE,
                "An unexpected error occurred. Please try again.", FALSE)
    ELSE IF f.email = <<>>
    THEN Answer(f.email, FALSE, 400, FALSE, "Email address is required", FALSE)
    ELSE IF ~emailRegexTest(f.email)
    THEN Answer(f.email, checkUserExists(f.email), 400, FALSE,
                "Please enter a valid email address", FALSE)
    ELSE LET userExists == checkUserExists(f.email)
         IN Answer(f.email, userExists, 200, TRUE,
                   "If an account with that email exists, we have sent a password reset link.",
                   userExists)

NoForgot == <<>>

\* --------------------------------------------- SIMONEService (job polling)
MaxWait == 2
MaxPoll == 1

\* a ClientError, as far as callers tell errors apart
ClientError(code, message, recoverable) ==
    [code |-> code, message |-> message, recoverable |-> recoverable]
NoClientError == ClientError("", "", FALSE)

\* a ClientResponse: of getJobStatus (data is the job's status and its
\* error_message) or of getJobResult (data is the result)
ClientResponse(success, status, error_message, error) ==
    [success |-> success, status |-> status, error_message |-> error_message,
     error |-> error]

\* what makeRequest returns for a failing request
RequestFailures ==
    {ClientResponse(FALSE, "", "", ClientError("500", "HTTP 500", TRUE)),
     ClientResponse(FALSE, "", "", ClientError("404", "HTTP 404", FALSE)),
     ClientResponse(FALSE, "", "",
                    ClientError("NETWORK_ERROR", "fetch failed", TRUE))}

StatusResponses ==
    {ClientResponse(TRUE, st, "", NoClientError) :
         st \in {"pending", "in_progress", "completed", "failed"}}
        \cup {ClientResponse(TRUE, "failed", "agent crashed", NoClientError)}
        \cup RequestFailures

ResultResponses ==
    {ClientResponse(TRUE, "result", "", NoClientError)} \cup RequestFailures

\* a call of waitForCompletion: where it stands, its arguments, when its
\* sleep ends, the last status response, and what it returned and when
NoJob ==
    [pc |-> "idle", startTime |-> 0, pollInterval |-> 0, maxWaitTime |-> 0,
     wake |-> 0, last |-> <<>>, ret |-> <<>>, returnedAt |-> 0]

\* return: the promise of waitForCompletion resolves
Resolve(j, response, t) ==
    [j EXCEPT !.pc = "returned", !.ret = <<response>>, !.returnedAt = t]

\* the while test, and what follows: the next status request, or TIMEOUT
whileTest(j, t) ==
    IF t - j.startTime < j.maxWaitTime
    THEN [j EXCEPT !.pc = "status"]
    ELSE Resolve(j, ClientResponse(FALSE, "", "",
                                   ClientError("TIMEOUT",
                                               "Job did not complete within maxWaitTime",
                                               TRUE)), t)

\* the loop body that goes on polling after a failed job
onStatusKeepsPolling(j, statusResponse, t) ==
    LET k == [j EXCEPT !.last = <<statusResponse>>]
    IN IF ~statusResponse.success
       THEN Resolve(k, ClientResponse(FALSE, "", "", statusResponse.error), t)
       ELSE IF statusResponse.status = "completed"
       THEN [k EXCEPT !.pc = "result"]
       ELSE [k EXCEPT !.pc = "sleep", !.wake = t + j.pollInterval]

\* the loop body after await this.getJobStatus(jobId)
onStatus(j, statusResponse, t) ==
    LET k == [j EXCEPT !.last = <<statusResponse>>]
    IN IF ~statusResponse.success
       THEN Resolve(k, ClientResponse(FALSE, "", "", statusResponse.error), t)
       ELSE IF statusResponse.status = "completed"
       THEN [k EXCEPT !.pc = "result"]
       ELSE IF statusResponse.status = "failed"
       THEN Resolve(k, ClientResponse(FALSE, "", "",
                        ClientError("PROCESSING_FAILED",
                                    IF statusResponse.error_message # ""
                                    THEN statusResponse.error_message
                                    ELSE "Job processing failed",
                                    FALSE)), t)
       ELSE [k EXCEPT !.pc = "sleep", !.wake = t + j.pollInterval]

\* state after new AuthService(config): empty table, timer armed
Constructed ==
    /\ now = 0
    /\ sessions = <<>>
    /\ nextId = 1
    /\ cleanupTimer = TRUE
    /\ tokens = {}
    /\ sessionTimeout = SessionTimeout
    /\ result = Idle
    /\ rotations = {}
    /\ destroyed = [id \in SessionIds |-> 0]
    /\ cleanedUp = FALSE
    /\ pw = NoPasswordCall
    /\ mockUsers = <<>>
    /\ signups = [r \in Requesters |-> NoSignup]
    /\ forgot = NoForgot
    /\ job = NoJob

Init == Constructed /\ jwtSecret = GoodSecret

Next ==
    \/ Authenticate
    \/ ValidateSession
    \/ RefreshSession
    \/ DestroySession
    \/ Sweep
    \/ Cleanup
    \/ Tick
    \/ Return

Spec == Init /\ [][Next]_vars

\* the same service when the configured signing secret may be empty, so that
\* jwt.sign and jwt.verify throw
FaultInit == Constructed /\ jwtSecret \in {"", GoodSecret}

FaultSpec == FaultInit /\ [][Next]_vars

\* sessionTimeout values the constructor takes without complaint: the
\* config field is any number
AcceptedTimeouts == {-1, 0, SessionTimeout}

\* the service constructed with any accepted sessionTimeout
AnyTimeoutInit ==
    /\ now = 0
    /\ sessions = <<>>
    /\ nextId = 1
    /\ cleanupTimer = TRUE
    /\ tokens = {}
    /\ sessionTimeout \in AcceptedTimeouts
    /\ jwtSecret = GoodSecret
    /\ result = Idle
    /\ rotations = {}
    /\ destroyed = [id \in SessionIds |-> 0]
    /\ cleanedUp = FALSE
    /\ pw = NoPasswordCall
    /\ mockUsers = <<>>
    /\ signups = [r \in Requesters |-> NoSignup]
    /\ forgot = NoForgot
    /\ job = NoJob

AnyTimeoutSpec == AnyTimeoutInit /\ [][Next]_vars

\* ------------------------------------------------- password utility calls
serviceVars ==
    <<now, sessions, nextId, cleanupTimer, tokens, sessionTimeout, jwtSecret,
      result, rotations, destroyed, cleanedUp>>

pageVars == <<mockUsers, signups, forgot, job>>

ValidatePasswordStrength ==
    /\ pw = NoPasswordCall
    /\ \E impl \in Implementations, password \in Passwords :
        /\ pw' = [NoPasswordCall EXCEPT
                      !.op = "validatePasswordStrength",
                      !.impl = impl,
                      !.password = password,
                      !.strength =
                          IF impl = "PasswordUtils"
                          THEN PasswordUtils_validatePasswordStrength(password)
                          ELSE validatePasswordStrength(password)]
        /\ UNCHANGED <<serviceVars, pageVars>>

HashPassword ==
    /\ pw = NoPasswordCall
    /\ \E impl \in Implementations, password \in PlainPasswords,
          config \in Argon2Configs, salt \in Salts :
        LET h == IF impl = "PasswordUtils"
                 THEN PasswordUtils_hashPassword(password, config, salt)
                 ELSE hashPassword(password, salt)
        IN /\ pw' = [NoPasswordCall EXCEPT
                         !.op = "hashPassword",
                         !.impl = impl,
                         !.password = password,
                         !.config = IF impl = "PasswordUtils"
                                    THEN config ELSE NoConfig,
                         !.threw = h.threw,
                         !.message = h.message,
                         !.digest = h.digest]
           /\ UNCHANGED <<serviceVars, pageVars>>

\* a candidate is verified against the hash just made, or against a string
\* that is no hash
VerifyPassword ==
    /\ pw.op \in {"hashPassword", "verifyPassword"}
    /\ \E impl \in Implementations, candidate \in PlainPasswords,
          hash \in {pw.digest[i] : i \in DOMAIN pw.digest}
                   \cup {MalformedHash, EmptyHash} :
        LET v == IF impl = "PasswordUtils"
                 THEN PasswordUtils_verifyPassword(candidate, hash)
                 ELSE verifyPassword(candidate, hash)
        IN /\ pw' = [pw EXCEPT
                         !.op = "verifyPassword",
                         !.impl = impl,
                         !.candidate = candidate,
                         !.hash = hash,
                         !.threw = v.threw,
                         !.verified = v.ret]
           /\ UNCHANGED <<serviceVars, pageVars>>

\* the stored hash, or a string that is no hash, is checked against the
\* current parameters
NeedsRehash ==
    /\ pw.op = "hashPassword"
    /\ \E comparesParallelism \in BOOLEAN,
          hash \in {pw.digest[i] : i \in DOMAIN pw.digest}
                   \cup {MalformedHash} :
        /\ pw' = [pw EXCEPT
                      !.op = "needsRehash",
                      !.impl = "password-hashing",
                      !.hash = hash,
                      !.rehash = needsRehash(hash, comparesParallelism)]
        /\ UNCHANGED <<serviceVars, pageVars>>

PasswordNext ==
    \/ ValidatePasswordStrength
    \/ HashPassword
    \/ VerifyPassword
    \/ NeedsRehash

PasswordSpec == Init /\ [][PasswordNext]_vars

\* ------------------------------------------------ signup.ts: POST handler
\* The handler runs from one await to the next; requests interleave there.
Respond(r, status, error) ==
    signups' = [signups EXCEPT ![r] = [@ EXCEPT !.pc = "done",
                                                !.status = status,
                                                !.error = error]]

\* await request.json()
SignupReceive ==
    \E r \in Requesters :
        /\ signups[r].pc = "idle"
        /\ \E body \in SignupBodies :
            signups' = [signups EXCEPT ![r] =
                IF body.json
                THEN Signup("parsed", body, 0, "")
                ELSE Signup("done", body, 400, "Invalid JSON in request body")]
        /\ UNCHANGED <<serviceVars, pw, mockUsers, forgot, job>>

\* the validations and the lookup of the address, up to await hashPassword
SignupCheck ==
    \E r \in Requesters :
        /\ signups[r].pc = "parsed"
        /\ LET body == signups[r].body
               v == signupValidate(body)
           IN IF v.status # 0
              THEN Respond(r, v.status, v.error)
              ELSE IF existingUser(mockUsers, body.email)
              THEN Respond(r, 409, "An account with this email already exists")
              ELSE signups' = [signups EXCEPT ![r].pc = "hashing"]
        /\ UNCHANGED <<serviceVars, pw, mockUsers, forgot, job>>

\* hashPassword has settled: the user is pushed and 201 sent, or the catch
\* answers 500
SignupCreate ==
    \E r \in Requesters :
        /\ signups[r].pc = "hashing"
        /\ \E salt \in Salts :
            LET body == signups[r].body
                h == hashPassword(body.password, salt)
            IN IF h.threw
               THEN /\ Respond(r, 500, "Internal server error")
                    /\ UNCHANGED mockUsers
               ELSE /\ mockUsers' = Append(mockUsers,
                                           newUser(r, body, h.digest[1]))
                    /\ Respond(r, 201, "")
        /\ UNCHANGED <<serviceVars, pw, forgot, job>>

SignupNext ==
    \/ SignupReceive
    \/ SignupCheck
    \/ SignupCreate

SignupSpec == Init /\ [][SignupNext]_vars

\* ----------------------------------------- forgot-password.ts: POST handler
\* The handler touches nothing shared, so a request is one step; forgot
\* keeps the answer and the one before it.
ForgotPassword ==
    \E f \in ForgotForms :
        /\ forgot' = <<forgotPassword(f)>>
                       \o (IF forgot = <<>> THEN <<>> ELSE <<forgot[1]>>)
        /\ UNCHANGED <<serviceVars, pw, mockUsers, signups, job>>

ForgotSpec == Init /\ [][ForgotPassword]_vars

\* ------------------------------------- SIMONEService.waitForCompletion
\* The call runs from one await to the next; the clock advances in between.
WaitForCompletion ==
    /\ job.pc = "idle"
    /\ \E pollInterval \in 0 .. MaxPoll, maxWaitTime \in 0 .. MaxWait :
        /\ now + maxWaitTime <= MaxTime
        /\ job' = [job EXCEPT !.pc = "test", !.startTime = now,
                              !.pollInterval = pollInterval,
                              !.maxWaitTime = maxWaitTime]
    /\ UNCHANGED <<serviceVars, pw, mockUsers, signups, forgot>>

\* while (Date.now() - startTime < maxWaitTime)
JobTest ==
    /\ job.pc = "test"
    /\ job' = whileTest(job, now)
    /\ UNCHANGED <<serviceVars, pw, mockUsers, signups, forgot>>

\* the status request is answered
JobStatus ==
    /\ job.pc = "status"
    /\ \E statusResponse \in StatusResponses :
        job' = onStatus(job, statusResponse, now)
    /\ UNCHANGED <<serviceVars, pw, mockUsers, signups, forgot>>

\* setTimeout(resolve, pollInterval) fires; the last value of the clock
\* stands for every later time
JobWake ==
    /\ job.pc = "sleep"
    /\ now >= job.wake \/ now = MaxTime
    /\ job' = [job EXCEPT !.pc = "test"]
    /\ UNCHANGED <<serviceVars, pw, mockUsers, signups, forgot>>

\* return this.getJobResult(jobId): the result request is answered
JobResult ==
    /\ job.pc = "result"
    /\ \E resultResponse \in ResultResponses :
        job' = Resolve(job, resultResponse, now)
    /\ UNCHANGED <<serviceVars, pw, mockUsers, signups, forgot>>

JobNext ==
    \/ WaitForCompletion
    \/ JobTest
    \/ JobStatus
    \/ JobWake
    \/ JobResult
    \/ Tick

JobSpec == Init /\ [][JobNext]_vars

\* every request is answered, every timer fires, the call goes on when it
\* can, and time passes
JobLiveSpec ==
    /\ JobSpec
    /\ WF_vars(JobTest)
    /\ WF_vars(JobStatus)
    /\ WF_vars(JobWake)
    /\ WF_vars(JobResult)
    /\ WF_vars(Tick)

\* the service together with a caller that writes to what it was returned
AliasNext ==
    \/ Next
    \/ CallerMutates

AliasSpec == Init /\ [][AliasNext]_vars

\* the service together with the triple-chain endpoint
TripleNext ==
    \/ Next
    \/ TripleAPIKey
    \/ TripleJWT
    \/ TripleOAuth2

TripleSpec == Init /\ [][TripleNext]_vars

\* ======================================================== properties
\* what validateSession would answer for id in the current state
Validates(id) == validateSession(sessions, id, now).ret # <<>>

WellFormedKey(apiKey) == startsWithPrefix(apiKey) /\ apiKey.length >= 32

\* C1: validateSession rejects a stored session exactly when its
\* expiresAt <= now, so a session created at T with timeout d is accepted
\* up to T+d-1 and rejected from T+d onward.
C1_ExpiryBoundary ==
    (result.op = "validateSession" /\ result.id \in DOMAIN result.before)
        => (result.res.success
                <=> ~(result.before[result.id].expiresAt <= now))

\* C2: after a refresh of id returned newId, newId differs from id,
\* validateSession(id) answers NotFound and validateSession(newId) succeeds.
C2_RefreshInvalidatesOld ==
    (result.op = "refreshSession" /\ result.res.success)
        => /\ result.res.sessionId # result.id
           /\ ~Validates(result.id)
           /\ Validates(result.res.sessionId)

C2_Witness ==
    /\ result.op = "refreshSession"
    /\ result.res.success
    /\ result.id \in DOMAIN result.before

\* C3: under every interleaving of calls there is no state in which both
\* the old id of a refresh and its replacement validate.
C3_RefreshAtomic ==
    \A p \in rotations : ~(Validates(p[1]) /\ Validates(p[2]))

\* another caller validated the old id after the refresh and was refused
\* while the replacement was live
C3_Witness ==
    \E p \in rotations :
        /\ result.op = "validateSession"
        /\ result.id = p[1]
        /\ ~result.res.success
        /\ Validates(p[2])

\* C4: destroySession returns true exactly when the id was in the table, so
\* it returns true at most once per id; after it, the id does not validate.
C4_DestroyIdempotent ==
    /\ \A id \in SessionIds : destroyed[id] <= 1
    /\ result.op = "destroySession"
           => /\ result.res.success <=> result.id \in DOMAIN result.before
              /\ ~Validates(result.id)

\* a second destroy of an id that an earlier destroy removed
C4_Witness ==
    /\ result.op = "destroySession"
    /\ destroyed[result.id] = 1
    /\ ~result.res.success

\* C5: when authenticate returns success=false, the session that call
\* created (if any) is not left in the table.
C5_NoSessionFromFailedTier ==
    (result.op = "authenticate" /\ ~result.res.success)
        => DOMAIN sessions \subseteq DOMAIN result.before

\* the structural reasons for which authenticate fails
StructuralFailure(request) ==
    \/ request.method = "api-key" /\ ~WellFormedKey(request.apiKey)
    \/ /\ request.method = "jwt"
       /\ \/ request.token = NoToken
          \/ ~jwtVerify(request.token[1], jwtSecret, now)
    \/ /\ request.method = "oauth2"
       /\ (request.clientId = "" \/ request.clientSecret = "")
    \/ request.method \notin {"api-key", "jwt", "oauth2"}

\* C6: an authenticate that fails for a structural reason creates no
\* session and signs no token: the table is the one it found.
C6_StructuralFailureNoEffect ==
    (result.op = "authenticate" /\ StructuralFailure(result.request))
        => /\ ~result.res.success
           /\ sessions = result.before
           /\ result.signed = {}
           /\ result.res.sessionId = 0
           /\ result.res.token = NoToken

C6_Witness ==
    /\ result.op = "authenticate"
    /\ result.request.method = "api-key"
    /\ result.request.apiKey = KeyPrefix31
    /\ sessions # <<>>

TierErrors(method) ==
    CASE method = "api-key" ->
             {"INVALID_API_KEY_FORMAT", "INVALID_API_KEY", "API_KEY_AUTH_ERROR"}
      [] method = "jwt" -> {"INVALID_JWT_TOKEN"}
      [] OTHER -> {"INVALID_OAUTH2_CREDENTIALS", "OAUTH2_AUTH_ERROR"}

\* C7: authenticate returns exactly one AuthStep, for request.method, and
\* the success and error of that tier.
C7_SingleStep ==
    (/\ result.op = "authenticate"
     /\ result.request.method \in {"api-key", "jwt", "oauth2"})
        => /\ Len(result.res.authSteps) = 1
           /\ result.res.authSteps[1].method = result.request.method
           /\ result.res.authSteps[1].success = result.res.success
           /\ ~result.res.success
                  => result.res.error.code \in TierErrors(result.request.method)

\* C8: an api-key authenticate with a key lacking the prefix or shorter
\* than 32 characters fails with INVALID_API_KEY_FORMAT.
C8_BadKeyFormatCode ==
    (/\ result.op = "authenticate"
     /\ result.request.method = "api-key"
     /\ ~WellFormedKey(result.request.apiKey))
        => /\ ~result.res.success
           /\ result.res.error.code = "INVALID_API_KEY_FORMAT"

\* C9: an api-key authenticate with a well-formed key succeeds with a
\* session id that validates, a token, and the requested permissions, or
\* the default ones when none were requested.
C9_APIKeySuccess ==
    (/\ result.op = "authenticate"
     /\ result.request.method = "api-key"
     /\ WellFormedKey(result.request.apiKey))
        => /\ result.res.success
           /\ result.res.sessionId # 0
           /\ Validates(result.res.sessionId)
           /\ result.res.token # NoToken
           /\ result.res.user # NoUser
           /\ result.res.user[1].permissions =
                  IF result.request.permissions # <<>>
                  THEN result.request.permissions
                  ELSE <<"basic", "read">>
           /\ result.res.permissions = result.res.user[1].permissions

C9_Witness ==
    /\ result.op = "authenticate"
    /\ result.request.method = "api-key"
    /\ result.request.permissions = <<"basic", "chat">>
    /\ result.res.success
    /\ result.res.user[1].permissions[1] = "basic"

\* the request presents a token that verifies and whose session validated
\* in the table the call found
PresentsLiveSession(r) ==
    /\ r.op = "authenticate"
    /\ r.request.method = "jwt"
    /\ r.request.token # NoToken
    /\ jwtVerify(r.request.token[1], jwtSecret, now)
    /\ r.request.token[1].sessionId # 0
    /\ validateSession(r.before, r.request.token[1].sessionId, now).ret # <<>>

\* C10: a jwt authenticate whose token verifies and whose sessionId still
\* validates returns that sessionId and leaves the set of session ids as
\* it was.
C10_JWTReusesSession ==
    PresentsLiveSession(result)
        => /\ result.res.success
           /\ result.res.sessionId = result.request.token[1].sessionId
           /\ DOMAIN sessions = DOMAIN result.before

C10_Witness ==
    /\ PresentsLiveSession(result)
    /\ result.res.success

\* the request presents a token that verifies and whose sessionId is missing
\* or does not validate in the table the call found
PresentsDeadSession(r) ==
    /\ r.op = "authenticate"
    /\ r.request.method = "jwt"
    /\ r.request.token # NoToken
    /\ jwtVerify(r.request.token[1], jwtSecret, now)
    /\ \/ r.request.token[1].sessionId = 0
       \/ validateSession(r.before, r.request.token[1].sessionId, now).ret = <<>>

\* the request presents a token that fails verification
PresentsBadToken(r) ==
    /\ r.op = "authenticate"
    /\ r.request.method = "jwt"
    /\ r.request.token # NoToken
    /\ ~jwtVerify(r.request.token[1], jwtSecret, now)

\* C11: a jwt authenticate whose token verifies but whose sessionId is
\* missing or no longer validates succeeds and adds exactly one session,
\* under a new id, for the decoded user; a token that fails verification
\* yields success=false with INVALID_JWT_TOKEN.
C11_JWTMintsOrRejects ==
    /\ PresentsDeadSession(result)
           => /\ result.res.success
              /\ DOMAIN sessions \ DOMAIN result.before
                     = {result.res.sessionId}
              /\ result.res.sessionId # result.request.token[1].sessionId
              /\ sessions[result.res.sessionId].userId
                     = result.request.token[1].userId
    /\ PresentsBadToken(result)
           => /\ ~result.res.success
              /\ result.res.error.code = "INVALID_JWT_TOKEN"

\* C12: an oauth2 authenticate with an empty client id, client secret,
\* redirect URI or provider name fails with MISSING_OAUTH2_CONFIG and
\* creates no session.
C12_MissingOAuth2Config ==
    (/\ result.op = "authenticate"
     /\ result.request.method = "oauth2"
     /\ \/ result.request.clientId = ""
        \/ result.request.clientSecret = ""
        \/ result.request.redirectUri = ""
        \/ result.request.provider = "")
        => /\ ~result.res.success
           /\ result.res.error.code = "MISSING_OAUTH2_CONFIG"
           /\ DOMAIN sessions \subseteq DOMAIN result.before

\* a chain call that has returned
ChainReturned(r) == r.op = "authenticateTriple" /\ ~ChainPending(r)

\* a token jwt.verify cannot accept: malformed, signed with another key, or
\* past its exp
InvalidJWT(token) ==
    \/ token.kind # "jwt"
    \/ token.key # jwtSecret
    \/ token.exp <= now

\* the steps of a chain are numbered 1.., in the order api-key, jwt, oauth2,
\* and every step before the last succeeded
StepsInOrder(authSteps) ==
    /\ Len(authSteps) \in 1 .. 3
    /\ \A i \in DOMAIN authSteps :
           /\ authSteps[i].step = i
           /\ authSteps[i].method = <<"api-key", "jwt", "oauth2">>[i]
           /\ i < Len(authSteps) => authSteps[i].success

\* C13: authenticateTriple runs the tiers in the order API key, JWT, OAuth2
\* and stops at the first that fails; with a valid API key and an invalid
\* JWT it returns a failure with exactly two AuthSteps (API key succeeded,
\* JWT failed), and the OAuth2 tier has stored no session and signed no
\* token.
C13_TripleShortCircuit ==
    /\ result.op = "authenticateTriple" => StepsInOrder(result.res.authSteps)
    /\ (ChainReturned(result) /\ ~result.res.success)
           => ~result.res.authSteps[Len(result.res.authSteps)].success
    /\ (/\ ChainReturned(result)
        /\ WellFormedKey(result.request.apiKey)
        /\ InvalidJWT(result.request.token[1]))
           => /\ ~result.res.success
              /\ Len(result.res.authSteps) = 2
              /\ result.res.authSteps[1].success
              /\ ~result.res.authSteps[2].success
              /\ Cardinality(DOMAIN sessions \ DOMAIN result.before) = 1
              /\ \A id \in DOMAIN sessions \ DOMAIN result.before :
                     sessions[id].userId = <<"user_", result.request.apiKey.tail>>
              /\ \A t \in result.signed : t.provider = ""

\* a chain given complete OAuth2 credentials stopped at a forged JWT
C13_Witness ==
    /\ ChainReturned(result)
    /\ WellFormedKey(result.request.apiKey)
    /\ result.request.token[1] = ForgedToken
    /\ result.request.clientSecret # ""
    /\ Len(result.res.authSteps) = 2

\* every tier of the chain is given credentials it accepts
AllTiersAccept(r) ==
    /\ WellFormedKey(r.request.apiKey)
    /\ ~InvalidJWT(r.request.token[1])
    /\ r.request.clientId # ""
    /\ r.request.clientSecret # ""

\* C14: when all three tiers succeed, authenticateTriple returns success
\* with three AuthSteps in the order API key, JWT, OAuth2, permissions equal
\* to the union of the permissions granted at each step, and securityLevel
\* enterprise.
C14_TripleSuccess ==
    (ChainReturned(result) /\ AllTiersAccept(result))
        => /\ result.res.success
           /\ Len(result.res.authSteps) = 3
           /\ StepsInOrder(result.res.authSteps)
           /\ \A i \in 1 .. 3 : result.res.authSteps[i].success
           /\ Range(result.res.permissions)
                  = UNION {Range(result.res.authSteps[i].permissions) :
                               i \in 1 .. 3}
           /\ {"basic", "read", "write", "admin"}
                  \subseteq Range(result.res.permissions)
           /\ result.res.securityLevel = "enterprise"

\* a chain whose JWT tier granted a permission no other tier grants
C14_Witness ==
    /\ ChainReturned(result)
    /\ result.res.success
    /\ Len(result.res.authSteps) = 3
    /\ "chat" \in Range(result.res.permissions)

\* C15: every session in the table has expiresAt > createdAt, whatever
\* sessionTimeout the SessionManager was constructed with.
C15_ExpiresAfterCreation ==
    \A id \in DOMAIN sessions : sessions[id].expiresAt > sessions[id].createdAt

\* a session with its lastAccessedAt blanked
Untouched(session) == [session EXCEPT !.lastAccessedAt = 0]

\* C16: no step changes the id, userId, user, permissions, createdAt or
\* expiresAt of a session that stays in the table, and a successful
\* validateSession(id) changes nothing but the lastAccessedAt of session id.
C16_OnlyLastAccessedChanges ==
    [][/\ \A id \in DOMAIN sessions \cap DOMAIN sessions' :
              Untouched(sessions'[id]) = Untouched(sessions[id])
       /\ (result = Idle /\ result'.op = "validateSession"
                         /\ result'.res.success)
              => sessions' = [sessions EXCEPT ![result'.id].lastAccessedAt = now]
      ]_vars

\* a lookup that moved lastAccessedAt past createdAt
C16_Witness ==
    /\ result.op = "validateSession"
    /\ result.res.success
    /\ sessions[result.id].lastAccessedAt > sessions[result.id].createdAt

\* C17: a caller's write to a Session, user or permissions object it
\* obtained from the store does not change what validateSession returns
\* for that id.
C17_NoLiveReference ==
    result.op = "mutate"
        => validateSession(sessions, result.id, now).ret
               = validateSession(result.before, result.id, now).ret

\* C18: validateSession(id) on an absent id returns SESSION_NOT_FOUND and
\* leaves the table unchanged; on a present id with expiresAt <= now it
\* removes that entry, returns SESSION_NOT_FOUND and leaves every other
\* entry unchanged.
C18_ValidateNotFound ==
    result.op = "validateSession"
        => /\ result.id \notin DOMAIN result.before
                  => /\ ~result.res.success
                     /\ result.res.error.code = "SESSION_NOT_FOUND"
                     /\ sessions = result.before
           /\ (/\ result.id \in DOMAIN result.before
               /\ result.before[result.id].expiresAt <= now)
                  => /\ ~result.res.success
                     /\ result.res.error.code = "SESSION_NOT_FOUND"
                     /\ sessions = remove(result.before, result.id)

\* C19: every operation returns the same result whether or not a sweep step
\* ran just before it: validateSession, refreshSession and destroySession
\* answer for the table as they would for the swept table.
C19_SweepIsOptimization ==
    \A id \in SessionIds :
        LET swept == sweep(sessions, now)
        IN /\ validateSession(sessions, id, now).ret
                  = validateSession(swept, id, now).ret
           /\ refreshSession(sessions, id, nextId, now, sessionTimeout).ret
                  = refreshSession(swept, id, nextId, now, sessionTimeout).ret
           /\ destroySession(sessions, id).ret = destroySession(swept, id).ret

\* C20: the sweep timer is armed from construction until cleanup() is
\* called, is never armed again afterwards (so no sweep step runs after
\* cleanup), and the table is empty when cleanup returns.
C20_SweepBoundToLifecycle ==
    /\ ~cleanedUp => cleanupTimer
    /\ cleanedUp => ~cleanupTimer
    /\ result.op = "cleanup" => sessions = <<>>

\* the service went on to store a session after cleanup, the timer still off
C20_Witness ==
    /\ cleanedUp
    /\ ~cleanupTimer
    /\ sessions # <<>>

\* the four public calls of AuthService
PublicCall(r) ==
    r.op \in {"authenticate", "validateSession", "refreshSession",
              "destroySession"}

\* C21: a failed AuthResult of authenticate, validateSession, refreshSession
\* or destroySession carries an error with a code, a message and the
\* timestamp of the call; a successful one carries no error.
C21_StructuredError ==
    PublicCall(result)
        => IF result.res.success
           THEN result.res.error = NoError
           ELSE /\ result.res.error.code # ""
                /\ result.res.error.message # ""
                /\ result.res.error.timestamp = <<now>>

\* a failure built in a catch block
C21_Witness ==
    /\ result.op = "authenticate"
    /\ ~result.res.success
    /\ result.res.authSteps # <<>>
    /\ jwtSecret = ""

\* the messages AuthService writes itself
FixedMessages ==
    {"Valid authentication method required",
     "API key must start with agentui_ and be at least 32 characters",
     "Invalid API key provided",
     "Invalid or expired JWT token",
     "Invalid OAuth2 client credentials",
     "Session not found or expired",
     "Unable to refresh session",
     "Session not found"}

\* C22: the error.message of a failed AuthResult is one of the service's
\* own fixed messages, never the text of an exception it caught.
C22_NoRawExceptionText ==
    (PublicCall(result) /\ ~result.res.success)
        => result.res.error.message \in FixedMessages

\* a call during which jwt.sign or jwt.verify threw
CollaboratorFault(r) ==
    /\ jwtSecret = ""
    /\ \/ /\ r.op = "authenticate"
          /\ \/ r.request.method = "api-key" /\ WellFormedKey(r.request.apiKey)
             \/ r.request.method = "jwt" /\ r.request.token # NoToken
             \/ /\ r.request.method = "oauth2"
                /\ r.request.clientId # ""
                /\ r.request.clientSecret # ""
       \/ r.op = "refreshSession" /\ validateSession(r.before, r.id, now).ret # <<>>

\* C23: no public call rejects; a call during which the token library threw
\* returns an AuthResult with success=false.
C23_NeverRejects ==
    PublicCall(result)
        => /\ ~result.res.rejected
           /\ CollaboratorFault(result) => ~result.res.success

\* a refresh of a live session during which jwt.sign threw
C23_Witness ==
    /\ result.op = "refreshSession"
    /\ CollaboratorFault(result)
    /\ ~result.res.success

\* C24: a successful authenticate reports the security level of its tier:
\* standard for api-key, high for jwt, enterprise for oauth2.
C24_TierSecurityLevel ==
    (result.op = "authenticate" /\ result.res.success)
        => result.res.securityLevel =
               CASE result.request.method = "api-key" -> "standard"
                 [] result.request.method = "jwt" -> "high"
                 [] result.request.method = "oauth2" -> "enterprise"
                 [] OTHER -> "none"

\* a jwt login succeeded
C24_Witness ==
    /\ result.op = "authenticate"
    /\ result.res.success
    /\ result.request.method = "jwt"
    /\ result.res.securityLevel = "high"

C26_CreateSession ==
    [][/\ \A id \in DOMAIN sessions : id < nextId
       /\ \A id \in DOMAIN sessions' \ DOMAIN sessions :
              /\ id >= nextId
              /\ id < nextId'
              /\ sessions'[id].id = id
              /\ sessions'[id].createdAt = now
              /\ sessions'[id].lastAccessedAt = now
              /\ sessions'[id].expiresAt = now + sessionTimeout
       /\ nextId' >= nextId
       /\ nextId' - nextId = 1
              => /\ Cardinality(DOMAIN sessions' \ DOMAIN sessions) = 1
                 /\ \A id \in DOMAIN sessions \cap DOMAIN sessions' :
                        Untouched(sessions'[id]) = Untouched(sessions[id])
      ]_vars

\* a second session was created next to a live one
C26_Witness ==
    /\ Cardinality(DOMAIN sessions) = 2
    /\ \E id \in DOMAIN sessions : sessions[id].createdAt = now /\ now > 0

\* the password has three or more identical characters in a row
HasRunOfThree(password) ==
    \E i \in 1 .. Len(password) - 2 :
        password[i + 1] = password[i] /\ password[i + 2] = password[i]

\* the seven criteria, and those a password satisfies
Criteria ==
    {"length8", "length12", "lowercase", "uppercase", "digit", "symbol",
     "norepeat"}

Meets(password, criterion) ==
    CASE criterion = "length8" -> Len(password) >= 8
      [] criterion = "length12" -> Len(password) >= 12
      [] criterion = "lowercase" -> \E i \in DOMAIN password :
                                        password[i] \in Lowercase
      [] criterion = "uppercase" -> \E i \in DOMAIN password :
                                        password[i] \in Uppercase
      [] criterion = "digit" -> \E i \in DOMAIN password :
                                    password[i] \in Digits
      [] criterion = "symbol" ->
             \E i \in DOMAIN password :
                 password[i] \notin Lowercase \cup Uppercase \cup Digits
      [] OTHER -> ~HasRunOfThree(password)

Unmet(password) == {c \in Criteria : ~Meets(password, c)}

\* C27: in both implementations score is the number of criteria the
\* password satisfies, so 0 <= score <= 7.
C27_ScoreCountsCriteria ==
    pw.op = "validatePasswordStrength"
        => /\ pw.strength.score
                  = Cardinality(Criteria \ Unmet(pw.password))
           /\ pw.strength.score \in 0 .. 7

\* C28: isValid = true implies score >= 6; isValid = false implies
\* score < 6 and a non-empty feedback list.
C28_VerdictMatchesScore ==
    pw.op = "validatePasswordStrength"
        => IF pw.strength.isValid
           THEN pw.strength.score >= 6
           ELSE pw.strength.score < 6 /\ pw.strength.feedback # <<>>

\* C29: for a password that is not valid, feedback has one entry per unmet
\* criterion and no other; for a valid one it is a single affirmative
\* message.
C29_FeedbackListsUnmet ==
    pw.op = "validatePasswordStrength"
        => IF pw.strength.isValid
           THEN /\ Len(pw.strength.feedback) = 1
                /\ pw.strength.feedback[1] = "Password strength is good"
           ELSE Len(pw.strength.feedback)
                    = Cardinality(Unmet(pw.password))

C31_RehashDetection ==
    (/\ pw.op = "needsRehash"
     /\ pw.digest # <<>>
     /\ pw.hash = pw.digest[1])
        => (pw.rehash
                <=> \E f \in CostFields : pw.hash.config[f] # ARGON2_CONFIG[f])

\* a config was supplied and one of its parameters is not positive
NonPositiveConfig(config) ==
    config # NoConfig /\ \E f \in CostFields : config[f] <= 0

\* C32: hashing an empty password fails, and hashing with a supplied config
\* that has a non-positive cost parameter fails; neither returns a hash.
C32_HashRejectsBadInput ==
    (/\ pw.op = "hashPassword"
     /\ pw.password = <<>> \/ NonPositiveConfig(pw.config))
        => pw.threw /\ pw.digest = <<>>

\* C33: verifyPassword returns a boolean for every password and hash
\* string and never throws; for a malformed hash string it returns false.
C33_VerifyNeverThrows ==
    pw.op = "verifyPassword"
        => /\ ~pw.threw
           /\ pw.verified \in BOOLEAN
           /\ ~pw.hash.phc => ~pw.verified

\* a malformed hash was handed to PasswordUtils.verifyPassword
C33_Witness ==
    /\ pw.op = "verifyPassword"
    /\ pw.impl = "PasswordUtils"
    /\ pw.hash = MalformedHash
    /\ pw.candidate # <<>>
    /\ ~pw.verified

\* the sessions that refreshes of id produced
Replacements(id) == {p[2] : p \in {q \in rotations : q[1] = id}}

\* C34: of the refreshSession calls on one live id exactly one succeeds and
\* the others are answered SESSION_REFRESH_FAILED; after the winner the
\* table holds its replacement and not id, and a loser adds no session.
C34_OneRefreshWins ==
    /\ \A id \in SessionIds : Cardinality(Replacements(id)) <= 1
    /\ result.op = "refreshSession"
        => IF result.res.success
           THEN /\ Replacements(result.id) = {result.res.sessionId}
                /\ result.res.sessionId \in DOMAIN sessions
                /\ result.id \notin DOMAIN sessions
           ELSE /\ DOMAIN sessions \subseteq DOMAIN result.before
                /\ Replacements(result.id) # {}
                       => result.res.error.code = "SESSION_REFRESH_FAILED"

\* a second refresh of the same id lost while the replacement was live
C34_Witness ==
    /\ result.op = "refreshSession"
    /\ ~result.res.success
    /\ \E n \in Replacements(result.id) : Validates(n)

\* C35: refreshSession(id) on a live id returns a session with the userId,
\* user and permissions of session id, createdAt = now and expiresAt = now
\* + sessionTimeout; on an absent or expired id (expiresAt <= now) it
\* returns failure and creates no session.
C35_RefreshClones ==
    result.op = "refreshSession"
        => IF /\ result.id \in DOMAIN result.before
              /\ ~(result.before[result.id].expiresAt <= now)
           THEN result.res.success
                    => LET old == result.before[result.id]
                           new == sessions[result.res.sessionId]
                       IN /\ new.userId = old.userId
                          /\ new.user = old.user
                          /\ new.permissions = old.permissions
                          /\ new.createdAt = now
                          /\ new.expiresAt = now + sessionTimeout
                          /\ result.res.user = <<old.user>>
                          /\ result.res.permissions = old.permissions
           ELSE /\ ~result.res.success
                /\ DOMAIN sessions \subseteq DOMAIN result.before

\* C36: a successful AuthResult of authenticate or refreshSession that
\* carries a token and a sessionId carries a token whose sessionId claim is
\* that sessionId.
C36_TokenNamesSession ==
    (/\ result.op \in {"authenticate", "refreshSession"}
     /\ result.res.success
     /\ result.res.token # NoToken
     /\ result.res.sessionId # 0)
        => result.res.token[1].sessionId = result.res.sessionId

\* C37: for every password the two validators return the same isValid: the
\* verdict one returned is the verdict of the other.
C37_ValidatorsAgree ==
    pw.op = "validatePasswordStrength"
        => pw.strength.isValid
               = IF pw.impl = "PasswordUtils"
                 THEN validatePasswordStrength(pw.password).isValid
                 ELSE PasswordUtils_validatePasswordStrength(pw.password).isValid

\* C38: under every interleaving of signup requests no two users of the
\* list have addresses that are equal ignoring case, and a request answered
\* 409 added no user.
C38_SignupUniqueEmails ==
    /\ \A i, j \in DOMAIN mockUsers :
           i # j => toLowerCase(mockUsers[i].email)
                        # toLowerCase(mockUsers[j].email)
    /\ \A r \in Requesters :
           signups[r].status = 409
               => \A i \in DOMAIN mockUsers : mockUsers[i].id # r

\* C39: the responses to any two requests with syntactically valid
\* addresses have status 200 and the same body, whether or not an account
\* exists for the address.
C39_SameAnswerEitherWay ==
    \A i, j \in DOMAIN forgot :
        (emailRegexTest(forgot[i].email) /\ emailRegexTest(forgot[j].email))
            => /\ forgot[i].status = 200
               /\ forgot[i].success = forgot[j].success
               /\ forgot[i].message = forgot[j].message

\* an address with an account answered after one without
C39_Witness ==
    /\ Len(forgot) = 2
    /\ emailRegexTest(forgot[1].email)
    /\ emailRegexTest(forgot[2].email)
    /\ forgot[1].exists /\ forgot[1].sent
    /\ ~forgot[2].exists

\* what a returned call returned, given the last status response it saw
ReturnedAsClaimed ==
    LET ret == job.ret[1]
    IN IF job.last = <<>> \/ (job.last # <<>> /\ job.last[1].success
                              /\ job.last[1].status \in {"pending", "in_progress"})
       THEN /\ ~ret.success
            /\ ret.error.code = "TIMEOUT"
            /\ ret.error.recoverable
            /\ job.returnedAt - job.startTime >= job.maxWaitTime
       ELSE IF ~job.last[1].success
       THEN ~ret.success /\ ret.error = job.last[1].error
       ELSE IF job.last[1].status = "failed"
       THEN /\ ~ret.success
            /\ ret.error.code = "PROCESSING_FAILED"
            /\ ~ret.error.recoverable
       ELSE ret \in ResultResponses

====
